---------------------------- MODULE Spec2Model ----------------------------
(***************************************************************************)
(* Model of Motor Driver Code/PMSMx/BasicMotorControl.c: the periodic      *)
(* speed controller SpeedControlStep (sampler, 3rd order estimator,        *)
(* regulator, dispatch), the six-step commutation TrapUpdate and the       *)
(* change-notification handler _CNInterrupt.                               *)
(*                                                                         *)
(* Numbers.  The C floats (u, x_hat, x_dummy) are represented in fixed     *)
(* point: the integer v stands for the real v / FS.  The coefficient       *)
(* tables keep the digits of the source: K_reg and K in units of 1e-4, L   *)
(* in units of 1e-8.  Every product is rounded towards zero on its own,    *)
(* as a float product is rounded on its own.  theta_dot and speed are      *)
(* whole rad/s.  Unsigned 16-bit conversions reduce modulo 2^16.           *)
(*                                                                         *)
(* Not represented: NaN and infinities of the floats; the order of the two *)
(* word loads of a read of u (a read takes both words in one step, so a    *)
(* value is torn only by a handler that runs between the two word stores   *)
(* of line 144); the three indicator writes of a branch as separate steps; *)
(* the UART transfer started by DMA0_UART2_Transfer.                       *)
(***************************************************************************)
EXTENDS Integers, Sequences, FiniteSets, TLC

(***************************************************************************)
(* Bounds of the model.                                                    *)
(***************************************************************************)
\* resolution of the fixed-point stand-in for float: v stands for v / FS
FS == 100
\* value of the PWM period register PTPER (set by board code outside this file)
PTPER == 5000
\* timer events per behaviour of the statement-level specifications
MaxTicks == 1
\* calls of SpeedControlStep per behaviour of SpecSeq
MaxCalls == 2
\* hall sensor edges per behaviour
MaxEdges == 2
\* encoder pulses per behaviour
MaxPulses == 1

(***************************************************************************)
(* Program constants.                                                      *)
(***************************************************************************)
\* uint16_t torque: 2^16
Uint16Mod == 65536
\* Counts2RadSec: ((1 / 512.0) * 2 * PI) / Ts = 36.82 rad/s per count, in 1/100
RadPerCount == 3682
\* unit of K_reg and K below: 1e-4
CoefUnit == 10000
\* unit of L below: 1e-8
GainUnit == 100000000
\* "%u" argument of the telemetry line: x_hat[2][0] * 10000
TelemetryScale == 10000

CW == "CW"
CCW == "CCW"

\* target speeds the caller passes to SpeedControlStep, rad/s: they give a u
\* below 0, a u between 0 and 1, and a u whose product with PTPER needs more
\* than 16 bits
SpeedSet == {500, -500, -14000}

\* the target speeds of the statement-level specifications: they give u = 0,
\* a u below 0 and a u above 1
TickSpeeds == {0, 500, -2000}

Ctx == {"step", "cn"}

\* the 3-bit codes <<HALL1, HALL2, HALL3>>
HallCodes == {<<a, b, c>> : a \in 0..1, b \in 0..1, c \in 0..1}

ValidCodes == HallCodes \ {<<0, 0, 0>>, <<1, 1, 1>>}

\* where the rotor stands at reset in the statement-level specifications: the
\* sectors of the first and of the last condition of TrapUpdate's chains
StartCodes == {<<1, 1, 0>>, <<1, 0, 0>>}

Legs == <<"GH_A", "GL_A", "GH_B", "GL_B", "GH_C", "GL_C">>

LegSet == {Legs[i] : i \in 1..6}

(***************************************************************************)
(* Arithmetic.                                                             *)
(***************************************************************************)
\* C division of integers, and float -> integer conversion: towards zero
Quot(a, b) == IF a >= 0 THEN a \div b ELSE -((-a) \div b)

\* (uint16_t) of a whole number
ToUint16(v) == v % Uint16Mod

\* (int) / int16_t of the 32-bit counter value
ToInt16(v) == ((v + 32768) % Uint16Mod) - 32768

\* product of a float with a coefficient given in units of 1e-4
CoefMul(x, c) == Quot(x * c, CoefUnit)

\* product of a coefficient given in units of 1e-8 with whole rad/s
GainMul(l, w) == Quot(l * w, GainUnit \div FS)

K_reg == << <<7639, -3580, -5243>>,
            <<2752, -1471, -5500>>,
            <<-2592, 4365, 6546>> >>

L == <<28490, -8373, -121700>>

K == <<-4137, -6805, 7440>>

\* whole rad/s of a count of encoder edges over one period Ts
Counts2RadSec(speed) == Quot(speed * RadPerCount, 100)

\* lines 136-138: the three rows written to x_dummy, as the source indexes them
EstimatorRows(x, theta_dot) ==
  << CoefMul(x[1], K_reg[1][1]) + CoefMul(x[2], K_reg[1][2])
       + CoefMul(x[3], K_reg[1][3]) + GainMul(L[1], theta_dot),
     CoefMul(x[2], K_reg[2][1]) + CoefMul(x[2], K_reg[2][2])
       + CoefMul(x[3], K_reg[2][3]) + GainMul(L[2], theta_dot),
     CoefMul(x[3], K_reg[3][1]) + CoefMul(x[2], K_reg[3][2])
       + CoefMul(x[3], K_reg[3][3]) + GainMul(L[3], theta_dot) >>

\* the two arrays as the assignments of lines 136-142 find and leave them
Arrays(x, d) == [x_hat |-> x, x_dummy |-> d]

\* mutant of AssignDummy: the row is stored into x_hat itself as well, as an
\* update in place without the second array would do
AssignInPlace(i, e, theta_dot) ==
  [e EXCEPT !.x_dummy[i] = EstimatorRows(e.x_hat, theta_dot)[i],
            !.x_hat[i] = EstimatorRows(e.x_hat, theta_dot)[i]]

\* line 135 + i: x_dummy[i-1][0] = the row, read from x_hat as it is now
AssignDummy(i, e, theta_dot) ==
  [e EXCEPT !.x_dummy[i] = EstimatorRows(e.x_hat, theta_dot)[i]]

\* line 139 + i: x_hat[i-1][0] = x_dummy[i-1][0]
CopyRow(i, e) == [e EXCEPT !.x_hat[i] = e.x_dummy[i]]

\* lines 136-138 in their order
EstimateRows(e, theta_dot) ==
  AssignDummy(3, AssignDummy(2, AssignDummy(1, e, theta_dot), theta_dot), theta_dot)

\* lines 140-142 in their order
CopyRows(e) == CopyRow(3, CopyRow(2, CopyRow(1, e)))

\* mutant of Regulator: the sign of the feedback left out beside a bias
RegulatorBiased(x) ==
  CoefMul(x[1], K[1]) + CoefMul(x[2], K[2]) + CoefMul(x[3], K[3]) + 1

\* line 144: u = -1 * (K x_hat)
Regulator(x) ==
  -1 * (CoefMul(x[1], K[1]) + CoefMul(x[2], K[2]) + CoefMul(x[3], K[3]))

(***************************************************************************)
(* u in memory: a 32-bit object held in two 16-bit words.                  *)
(***************************************************************************)
UWords(v) == [lo |-> v % Uint16Mod, hi |-> (v \div Uint16Mod) % Uint16Mod]

UVal(w) == (IF w.hi >= 32768 THEN w.hi - Uint16Mod ELSE w.hi) * Uint16Mod + w.lo

(***************************************************************************)
(* Dispatch (lines 146-150 and 313-317).                                   *)
(***************************************************************************)
\* mutant of DirOf: the comparisons written u <= 0 and u > 0
DirOfZeroReverse(v) == IF v <= 0 THEN CCW ELSE CW

\* the branch taken on the sign of u
DirOf(v) == IF v < 0 THEN CCW ELSE CW

\* (uint16_t) (-1 * u * PTPER) in the u < 0 branch
TorqueNeg(v) == ToUint16(Quot(-1 * v * PTPER, FS))

\* (uint16_t) (u * PTPER) in the u >= 0 branch
TorquePos(v) == ToUint16(Quot(v * PTPER, FS))

TorqueArg(dir, v) == IF dir = CCW THEN TorqueNeg(v) ELSE TorquePos(v)

(***************************************************************************)
(* TrapUpdate (lines 177-309).                                             *)
(***************************************************************************)
\* mutant of Clamp: the clamp left out
ClampMissing(torque) == torque

\* lines 179-181
Clamp(torque) == IF torque > PTPER THEN PTPER ELSE torque

\* the hall code tested by the k-th condition of either chain
Pattern(k) ==
  CASE k = 1 -> <<1, 1, 0>>
    [] k = 2 -> <<0, 1, 0>>
    [] k = 3 -> <<0, 1, 1>>
    [] k = 4 -> <<0, 0, 1>>
    [] k = 5 -> <<1, 0, 1>>
    [] k = 6 -> <<1, 0, 0>>

Duty(ha, la, hb, lb, hc, lc) ==
  [GH_A |-> ha, GL_A |-> la, GH_B |-> hb, GL_B |-> lb, GH_C |-> hc, GL_C |-> lc]

\* mutant of EntryCW: the second branch drives both legs of phase A
EntryCWShort(k, t) ==
  CASE k = 1 -> Duty(0, 0, t, 0, 0, t)
    [] k = 2 -> Duty(t, t, 0, 0, 0, 0)
    [] k = 3 -> Duty(0, t, 0, 0, t, 0)
    [] k = 4 -> Duty(0, 0, 0, t, t, 0)
    [] k = 5 -> Duty(t, 0, 0, t, 0, 0)
    [] k = 6 -> Duty(t, 0, 0, 0, 0, t)

\* mutant of EntryCW: the second branch a copy of the first
EntryCWStale(k, t) ==
  CASE k = 1 -> Duty(0, 0, t, 0, 0, t)
    [] k = 2 -> Duty(0, 0, t, 0, 0, t)
    [] k = 3 -> Duty(0, t, 0, 0, t, 0)
    [] k = 4 -> Duty(0, 0, 0, t, t, 0)
    [] k = 5 -> Duty(t, 0, 0, t, 0, 0)
    [] k = 6 -> Duty(t, 0, 0, 0, 0, t)

\* lines 184-243: the six assignments of the k-th branch, direction == CW
EntryCW(k, t) ==
  CASE k = 1 -> Duty(0, 0, t, 0, 0, t)
    [] k = 2 -> Duty(0, t, t, 0, 0, 0)
    [] k = 3 -> Duty(0, t, 0, 0, t, 0)
    [] k = 4 -> Duty(0, 0, 0, t, t, 0)
    [] k = 5 -> Duty(t, 0, 0, t, 0, 0)
    [] k = 6 -> Duty(t, 0, 0, 0, 0, t)

\* mutant of EntryCCW: the first branch a copy of the forward one
EntryCCWCopied(k, t) ==
  CASE k = 1 -> Duty(0, 0, t, 0, 0, t)
    [] k = 2 -> Duty(t, 0, 0, t, 0, 0)
    [] k = 3 -> Duty(t, 0, 0, 0, 0, t)
    [] k = 4 -> Duty(0, 0, t, 0, 0, t)
    [] k = 5 -> Duty(0, t, t, 0, 0, 0)
    [] k = 6 -> Duty(0, t, 0, 0, t, 0)

\* mutant of EntryCCW: the last branch drives phase B low instead of phase A low
EntryCCWWrongLeg(k, t) ==
  CASE k = 1 -> Duty(0, 0, 0, t, t, 0)
    [] k = 2 -> Duty(t, 0, 0, t, 0, 0)
    [] k = 3 -> Duty(t, 0, 0, 0, 0, t)
    [] k = 4 -> Duty(0, 0, t, 0, 0, t)
    [] k = 5 -> Duty(0, t, t, 0, 0, 0)
    [] k = 6 -> Duty(0, 0, 0, t, t, 0)

\* lines 246-306: the six assignments of the k-th branch, direction == CCW
EntryCCW(k, t) ==
  CASE k = 1 -> Duty(0, 0, 0, t, t, 0)
    [] k = 2 -> Duty(t, 0, 0, t, 0, 0)
    [] k = 3 -> Duty(t, 0, 0, 0, 0, t)
    [] k = 4 -> Duty(0, 0, t, 0, 0, t)
    [] k = 5 -> Duty(0, t, t, 0, 0, 0)
    [] k = 6 -> Duty(0, t, 0, 0, t, 0)

Entry(dir, k, t) == IF dir = CW THEN EntryCW(k, t) ELSE EntryCCW(k, t)

\* the branches whose condition holds of the code h, all three bits read at once
Matching(h) == {k \in 1..6 : Pattern(k) = h}

\* mutant of TrapUpdate: a final else that switches every leg off
TrapUpdateElseOff(torque, dir, h, dc, led) ==
  IF Matching(h) = {}
    THEN [dc |-> Duty(0, 0, 0, 0, 0, 0), led |-> led]
    ELSE LET k == CHOOSE j \in Matching(h) : \A i \in Matching(h) : j <= i
         IN  [dc |-> Entry(dir, k, Clamp(torque)), led |-> Pattern(k)]

\* a whole call with the sensors steady at h: the outputs and indicators it leaves
TrapUpdate(torque, dir, h, dc, led) ==
  IF Matching(h) = {}
    THEN [dc |-> dc, led |-> led]
    ELSE LET k == CHOOSE j \in Matching(h) : \A i \in Matching(h) : j <= i
         IN  [dc |-> Entry(dir, k, Clamp(torque)), led |-> Pattern(k)]


(***************************************************************************)
(* State.                                                                  *)
(***************************************************************************)
VARIABLES
  hall,        \* <<HALL1, HALL2, HALL3>>, the sensor pins as they are now
  CNIF,        \* IFS1bits.CNIF, the change-notification interrupt flag
  counter,     \* the QEI1 index counter register
  DC,          \* the six duty registers GH_A_DC .. GL_C_DC
  LED,         \* <<LED1, LED2, LED3>>
  LED4,
  u,           \* static float u, as its two words
  x_hat,       \* static float x_hat[3][1]
  x_dummy,     \* static float x_dummy[3][1]
  out,         \* static uint8_t out[56], as the two numbers printed into it
  pc,          \* where each of the two contexts stands
  active,      \* the contexts in progress, the running one first
  higher,      \* the handler whose interrupt priority lets it suspend the other
  torque,      \* TrapUpdate's parameter torque, per context
  direction,   \* TrapUpdate's parameter direction, per context
  br,          \* the condition of the chain a context is evaluating or has taken
  ix,          \* the sensor bit it reads next, or the register it writes next
  speed,       \* SpeedControlStep's parameter
  indexCount,  \* SpeedControlStep's local
  uTest,       \* the value _CNInterrupt loaded from u for its sign test
  uArg,        \* the value _CNInterrupt loaded from u for the torque argument
  ticks,       \* history: calls of SpeedControlStep so far
  edges,       \* history: hall edges so far
  npulses,     \* history: encoder pulses so far
  pulses,      \* history: net count the encoder produced
  sampled,     \* history: sum of the displacements the sampler read
  uStored,     \* history: 0 and every value a write of u has stored or is storing
  pendingEdge, \* history: an edge no handler dispatch has started reading after
  shown        \* history of RotorStep: the codes the rotor has left since a context
               \* began the chain of conditions it is evaluating

vHall == <<hall, CNIF>>

vOut == <<DC, LED, LED4>>

vEst == <<u, x_hat, x_dummy>>

vCtl == <<pc, active, higher>>

vTrap == <<torque, direction, br, ix>>

vStep == <<speed, indexCount>>

vCn == <<uTest, uArg>>

vEnc == <<counter, npulses, pulses, sampled>>

vHist == <<ticks, edges, uStored, pendingEdge, shown>>

vars == <<vHall, vOut, vEst, out, vCtl, vTrap, vStep, vCn, vEnc, vHist>>

ZeroDuty == Duty(0, 0, 0, 0, 0, 0)

\* lines 76-89: the statics start at zero
InitFrom(codes) ==
  /\ hall \in codes
  /\ CNIF = 0
  /\ counter = 0
  /\ DC = ZeroDuty
  /\ LED = <<0, 0, 0>>
  /\ LED4 = 0
  /\ u = UWords(0)
  /\ x_hat = <<0, 0, 0>>
  /\ x_dummy = <<0, 0, 0>>
  /\ out = <<0, 0>>
  /\ pc = [c \in Ctx |-> "idle"]
  /\ active = <<>>
  /\ higher \in Ctx
  /\ torque = [c \in Ctx |-> 0]
  /\ direction = [c \in Ctx |-> CW]
  /\ br = [c \in Ctx |-> 1]
  /\ ix = [c \in Ctx |-> 1]
  /\ speed = 0
  /\ indexCount = 0
  /\ uTest = 0
  /\ uArg = 0
  /\ ticks = 0
  /\ edges = 0
  /\ npulses = 0
  /\ pulses = 0
  /\ sampled = 0
  /\ uStored = {0}
  /\ pendingEdge = FALSE
  /\ shown = [c \in Ctx |-> {}]

Init == InitFrom(StartCodes)

\* the sensors may show any code at reset
InitSeq == InitFrom(HallCodes)

(***************************************************************************)
(* The environment: the rotor and the encoder.                             *)
(***************************************************************************)
\* one hall sensor changes level; the CN peripheral raises its flag
HallChange ==
  /\ edges < MaxEdges
  /\ \E b \in 1..3 : hall' = [hall EXCEPT ![b] = 1 - @]
  /\ CNIF' = 1
  /\ edges' = edges + 1
  /\ pendingEdge' = TRUE
  /\ UNCHANGED <<vOut, vEst, out, vCtl, vTrap, vStep, vCn, vEnc, ticks, uStored, shown>>

\* the rotor turns into a neighbouring sector: the sensors go from one valid
\* code to a valid code one bit away; the CN peripheral raises its flag
RotorStep ==
  /\ edges < MaxEdges
  /\ \E b \in 1..3 : hall' = [hall EXCEPT ![b] = 1 - @]
  /\ hall' \in ValidCodes
  /\ CNIF' = 1
  /\ edges' = edges + 1
  /\ pendingEdge' = TRUE
  /\ shown' = [c \in Ctx |-> IF pc[c] = "cond" THEN shown[c] \cup {hall} ELSE {}]
  /\ UNCHANGED <<vOut, vEst, out, vCtl, vTrap, vStep, vCn, vEnc, ticks, uStored>>

\* one encoder edge: the QEI peripheral counts it up or down
EncoderPulse ==
  /\ npulses < MaxPulses
  /\ \E d \in {1, -1} : counter' = counter + d /\ pulses' = pulses + d
  /\ npulses' = npulses + 1
  /\ UNCHANGED <<vHall, vOut, vEst, out, vCtl, vTrap, vStep, vCn, sampled, vHist>>

(***************************************************************************)
(* The handlers, each run from entry to return with nothing in between.    *)
(***************************************************************************)
\* "%i,%u\r\n", indexCount, (uint16_t) (x_hat[2][0] * 10000)
TelemetryLine(ic, x) == <<ic, ToUint16(Quot(x[3] * TelemetryScale, FS))>>

\* lines 123-156
SpeedControlStepRun(s) ==
  LET ic == ToInt16(counter)
      e == CopyRows(EstimateRows(Arrays(x_hat, x_dummy), Counts2RadSec(ic) - s))
      xd == e.x_hat
      un == Regulator(xd)
      dir == DirOf(un)
      tq == TorqueArg(dir, un)
      r == TrapUpdate(tq, dir, hall, DC, LED)
  IN  /\ active = <<>>
      /\ ticks < MaxCalls
      /\ ticks' = ticks + 1
      /\ sampled' = sampled + ic
      /\ counter' = 0
      /\ x_dummy' = e.x_dummy
      /\ x_hat' = e.x_hat
      /\ u' = UWords(un)
      /\ uStored' = uStored \cup {un}
      /\ DC' = r.dc
      /\ LED' = r.led
      /\ out' = TelemetryLine(ic, xd)
      /\ LED4' = 1 - LED4
      /\ UNCHANGED <<vHall, vCtl, vTrap, vStep, vCn, npulses, pulses, edges, pendingEdge, shown>>

\* mutant of CNInterruptRun: the branch of u < 0 negates u in place
CNInterruptRunNegates ==
  LET v == UVal(u)
      dir == DirOf(v)
      tq == TorqueArg(dir, v)
      r == TrapUpdate(tq, dir, hall, DC, LED)
  IN  /\ active = <<>>
      /\ CNIF = 1
      /\ u' = IF v < 0 THEN UWords(-v) ELSE u
      /\ DC' = r.dc
      /\ LED' = r.led
      /\ CNIF' = 0
      /\ pendingEdge' = FALSE
      /\ UNCHANGED <<hall, LED4, x_hat, x_dummy, out, vCtl, vTrap, vStep, vCn, vEnc,
                     ticks, edges, uStored, shown>>

\* lines 311-319
CNInterruptRun ==
  LET v == UVal(u)
      dir == DirOf(v)
      tq == TorqueArg(dir, v)
      r == TrapUpdate(tq, dir, hall, DC, LED)
  IN  /\ active = <<>>
      /\ CNIF = 1
      /\ DC' = r.dc
      /\ LED' = r.led
      /\ CNIF' = 0
      /\ pendingEdge' = FALSE
      /\ UNCHANGED <<hall, LED4, vEst, out, vCtl, vTrap, vStep, vCn, vEnc, ticks, edges, uStored, shown>>

NextSeq ==
  \/ \E s \in SpeedSet : SpeedControlStepRun(s)
  \/ CNInterruptRun
  \/ HallChange
  \/ EncoderPulse

SpecSeq == InitSeq /\ [][NextSeq]_vars

(***************************************************************************)
(* TrapUpdate on its own: the table as a function of its two parameters    *)
(* and of the code the sensors show.                                       *)
(***************************************************************************)
\* the values of the parameter torque: nothing, the least, a half, the whole
\* period, the first value the clamp cuts and the largest uint16_t
TorqueSet == {0, 1, PTPER \div 2, PTPER, PTPER + 1, Uint16Mod - 1}

\* lines 177-309: a call TrapUpdate(t, d) from entry to return
TrapUpdateRun(t, d) ==
  LET r == TrapUpdate(t, d, hall, DC, LED)
  IN  /\ active = <<>>
      /\ DC' = r.dc
      /\ LED' = r.led
      /\ UNCHANGED <<vHall, LED4, vEst, out, vCtl, vTrap, vStep, vCn, vEnc, vHist>>

NextTable ==
  \/ \E t \in TorqueSet : \E d \in {CW, CCW} : TrapUpdateRun(t, d)
  \/ HallChange

SpecTable == InitSeq /\ [][NextTable]_vars

(***************************************************************************)
(* The handlers statement by statement.  A context runs when it is the     *)
(* first of active.  The interrupt priorities are set outside this file:   *)
(* the handler of the higher one may start while the other is in progress, *)
(* and the one it suspends resumes when it returns.                        *)
(***************************************************************************)
Running(c) == active # <<>> /\ Head(active) = c

InProgress(c) == \E i \in 1..Len(active) : active[i] = c

\* the processor takes the event of handler c
MayStart(c) == ~InProgress(c) /\ (active = <<>> \/ higher = c)

At(c, loc) == Running(c) /\ pc[c] = loc

Goto(c, loc) == pc' = [pc EXCEPT ![c] = loc]

\* where TrapUpdate returns to
AfterTrap(c) == IF c = "step" THEN "telemetry" ELSE "clear"

\* a return: the frame of the call is gone (its locals are set back to their
\* initial values, so that dead values do not tell states apart)
DropTrapFrame(c) ==
  /\ torque' = [torque EXCEPT ![c] = 0]
  /\ direction' = [direction EXCEPT ![c] = CW]
  /\ br' = [br EXCEPT ![c] = 1]
  /\ ix' = [ix EXCEPT ![c] = 1]

\* the timer event calls SpeedControlStep(s)
Tick(s) ==
  /\ MayStart("step")
  /\ ticks < MaxTicks
  /\ ticks' = ticks + 1
  /\ speed' = s
  /\ active' = <<"step">> \o active
  /\ Goto("step", "readQEI")
  /\ UNCHANGED <<higher, vHall, vOut, vEst, out, vTrap, indexCount, vCn, vEnc, edges, uStored,
                 pendingEdge, shown>>

\* the timer event calls SpeedControlStep(s), period after period (the history
\* ticks stops counting at MaxTicks)
TickAgain(s) ==
  /\ MayStart("step")
  /\ ticks' = IF ticks < MaxTicks THEN ticks + 1 ELSE ticks
  /\ speed' = s
  /\ active' = <<"step">> \o active
  /\ Goto("step", "readQEI")
  /\ UNCHANGED <<higher, vHall, vOut, vEst, out, vTrap, indexCount, vCn, vEnc, edges, uStored,
                 pendingEdge, shown>>

\* line 131: indexCount = (int) Read32bitQEI1IndexCounter()
ReadQEI ==
  /\ At("step", "readQEI")
  /\ indexCount' = ToInt16(counter)
  /\ sampled' = sampled + ToInt16(counter)
  /\ Goto("step", "writeQEI")
  /\ UNCHANGED <<vHall, vOut, vEst, out, active, higher, vTrap, speed, vCn, counter, npulses, pulses, vHist>>

\* line 132: Write32bitQEI1IndexCounter(&w), w.l = 0
WriteQEI ==
  /\ At("step", "writeQEI")
  /\ counter' = 0
  /\ Goto("step", "estimate")
  /\ UNCHANGED <<vHall, vOut, vEst, out, active, higher, vTrap, vStep, vCn, npulses, pulses, sampled, vHist>>

\* lines 134-138
Estimate ==
  LET e == EstimateRows(Arrays(x_hat, x_dummy), Counts2RadSec(indexCount) - speed)
  IN  /\ At("step", "estimate")
      /\ x_dummy' = e.x_dummy
      /\ x_hat' = e.x_hat
      /\ Goto("step", "copy")
      /\ UNCHANGED <<vHall, vOut, u, out, active, higher, vTrap, vStep, vCn, vEnc, vHist>>

\* lines 140-142
CopyEstimate ==
  LET e == CopyRows(Arrays(x_hat, x_dummy))
  IN  /\ At("step", "copy")
      /\ x_dummy' = e.x_dummy
      /\ x_hat' = e.x_hat
      /\ Goto("step", "writeU")
      /\ UNCHANGED <<vHall, vOut, u, out, active, higher, vTrap, vStep, vCn, vEnc, vHist>>

\* line 144, the first word stored (the compiler fixes which)
WriteUFirst ==
  /\ At("step", "writeU")
  /\ \E w \in {"lo", "hi"} :
       /\ u' = [u EXCEPT ![w] = UWords(Regulator(x_hat))[w]]
       /\ Goto("step", IF w = "lo" THEN "writeU_hi" ELSE "writeU_lo")
  /\ uStored' = uStored \cup {Regulator(x_hat)}
  /\ UNCHANGED <<vHall, vOut, x_hat, x_dummy, out, active, higher, vTrap, vStep, vCn, vEnc,
                 ticks, edges, pendingEdge, shown>>

\* line 144, the second word stored
WriteUSecond ==
  /\ \E w \in {"lo", "hi"} :
       /\ At("step", IF w = "lo" THEN "writeU_lo" ELSE "writeU_hi")
       /\ u' = [u EXCEPT ![w] = UWords(Regulator(x_hat))[w]]
  /\ Goto("step", "dispatch")
  /\ UNCHANGED <<vHall, vOut, x_hat, x_dummy, out, active, higher, vTrap, vStep, vCn, vEnc, vHist>>

\* mutant of StepDispatch: the branch of u < 0 calls with CW as well
StepDispatchForward ==
  /\ At("step", "dispatch")
  /\ direction' = [direction EXCEPT !["step"] = CW]
  /\ torque' = [torque EXCEPT !["step"] = TorqueArg(DirOf(UVal(u)), UVal(u))]
  /\ Goto("step", "clamp")
  /\ UNCHANGED <<vHall, vOut, vEst, out, active, higher, br, ix, vStep, vCn, vEnc, vHist>>

\* lines 146-150: the sign test and the call's arguments
StepDispatch ==
  /\ At("step", "dispatch")
  /\ direction' = [direction EXCEPT !["step"] = DirOf(UVal(u))]
  /\ torque' = [torque EXCEPT !["step"] = TorqueArg(DirOf(UVal(u)), UVal(u))]
  /\ Goto("step", "clamp")
  /\ UNCHANGED <<vHall, vOut, vEst, out, active, higher, br, ix, vStep, vCn, vEnc, vHist>>

\* lines 152-153
Telemetry ==
  /\ At("step", "telemetry")
  /\ out' = TelemetryLine(indexCount, x_hat)
  /\ Goto("step", "led4")
  /\ UNCHANGED <<vHall, vOut, vEst, active, higher, vTrap, vStep, vCn, vEnc, vHist>>

\* line 155, and the return
ToggleLED4 ==
  /\ At("step", "led4")
  /\ LED4' = 1 - LED4
  /\ Goto("step", "idle")
  /\ active' = Tail(active)
  /\ speed' = 0
  /\ indexCount' = 0
  /\ UNCHANGED <<higher, vHall, DC, LED, vEst, out, vTrap, vCn, vEnc, vHist>>

\* the CN interrupt is taken: its flag is up
CNEnter ==
  /\ CNIF = 1
  /\ MayStart("cn")
  /\ active' = <<"cn">> \o active
  /\ Goto("cn", "test")
  /\ UNCHANGED <<higher, vHall, vOut, vEst, out, vTrap, vStep, vCn, vEnc, vHist>>

\* line 313: the load of u for the comparison u < 0
CNTest ==
  /\ At("cn", "test")
  /\ uTest' = UVal(u)
  /\ direction' = [direction EXCEPT !["cn"] = DirOf(UVal(u))]
  /\ Goto("cn", IF UVal(u) < 0 THEN "arg" ELSE "test2")
  /\ UNCHANGED <<vHall, vOut, vEst, out, active, higher, torque, br, ix, vStep, uArg, vEnc, vHist>>

\* line 315: the load of u for the comparison u >= 0; neither branch is taken
\* when it fails as well
CNTest2 ==
  /\ At("cn", "test2")
  /\ uTest' = UVal(u)
  /\ Goto("cn", IF UVal(u) >= 0 THEN "arg" ELSE "clear")
  /\ UNCHANGED <<vHall, vOut, vEst, out, active, higher, vTrap, vStep, uArg, vEnc, vHist>>

\* lines 314, 316: the load of u for the argument
CNArg ==
  /\ At("cn", "arg")
  /\ uArg' = UVal(u)
  /\ torque' = [torque EXCEPT !["cn"] = TorqueArg(direction["cn"], UVal(u))]
  /\ Goto("cn", "clamp")
  /\ UNCHANGED <<vHall, vOut, vEst, out, active, higher, direction, br, ix, vStep, uTest, vEnc, vHist>>

\* line 318, and the return
CNClear ==
  /\ At("cn", "clear")
  /\ CNIF' = 0
  /\ Goto("cn", "idle")
  /\ active' = Tail(active)
  /\ uTest' = 0
  /\ uArg' = 0
  /\ UNCHANGED <<higher, hall, vOut, vEst, out, vTrap, vStep, vEnc, vHist>>

\* lines 179-183 (245): the clamp, and the entry into the chain of the direction
TrapClamp(c) ==
  /\ At(c, "clamp")
  /\ torque' = [torque EXCEPT ![c] = Clamp(torque[c])]
  /\ br' = [br EXCEPT ![c] = 1]
  /\ ix' = [ix EXCEPT ![c] = 1]
  /\ Goto(c, "cond")
  /\ UNCHANGED <<vHall, vOut, vEst, out, active, higher, direction, vStep, vCn, vEnc, vHist>>

\* one sensor read of the condition br[c] (&& stops at the first false operand)
TrapReadHall(c) ==
  /\ At(c, "cond")
  /\ IF hall[ix[c]] = Pattern(br[c])[ix[c]]
       THEN IF ix[c] < 3
              THEN ix' = [ix EXCEPT ![c] = @ + 1]
                   /\ UNCHANGED <<br, pc, torque, direction>>
              ELSE ix' = [ix EXCEPT ![c] = 1] /\ Goto(c, "write")
                   /\ UNCHANGED <<br, torque, direction>>
       ELSE IF br[c] < 6
              THEN br' = [br EXCEPT ![c] = @ + 1] /\ ix' = [ix EXCEPT ![c] = 1]
                   /\ UNCHANGED <<pc, torque, direction>>
              ELSE Goto(c, AfterTrap(c)) /\ DropTrapFrame(c)
  /\ pendingEdge' = IF c = "cn" /\ br[c] = 1 /\ ix[c] = 1 THEN FALSE ELSE pendingEdge
  /\ shown' = IF pc'[c] = "cond" THEN shown ELSE [shown EXCEPT ![c] = {}]
  /\ UNCHANGED <<vHall, vOut, vEst, out, active, higher, vStep, vCn, vEnc, ticks, edges, uStored>>

\* one of the six duty assignments of the branch taken
TrapWrite(c) ==
  /\ At(c, "write")
  /\ DC' = [DC EXCEPT ![Legs[ix[c]]] = Entry(direction[c], br[c], torque[c])[Legs[ix[c]]]]
  /\ IF ix[c] < 6
       THEN ix' = [ix EXCEPT ![c] = @ + 1] /\ UNCHANGED pc
       ELSE ix' = [ix EXCEPT ![c] = 1] /\ Goto(c, "leds")
  /\ UNCHANGED <<vHall, LED, LED4, vEst, out, active, higher, torque, direction, br, vStep, vCn,
                 vEnc, vHist>>

\* the three indicator assignments of the branch taken, and the return
TrapLeds(c) ==
  /\ At(c, "leds")
  /\ LED' = Pattern(br[c])
  /\ Goto(c, AfterTrap(c))
  /\ DropTrapFrame(c)
  /\ UNCHANGED <<vHall, DC, LED4, vEst, out, active, higher, vStep, vCn, vEnc, vHist>>

\* SpeedControlStep from its first statement to its return
StepNext ==
  \/ ReadQEI
  \/ WriteQEI
  \/ Estimate
  \/ CopyEstimate
  \/ WriteUFirst
  \/ WriteUSecond
  \/ StepDispatch
  \/ TrapClamp("step")
  \/ TrapReadHall("step")
  \/ TrapWrite("step")
  \/ TrapLeds("step")
  \/ Telemetry
  \/ ToggleLED4

\* _CNInterrupt from its first statement to its return
CNNext ==
  \/ CNTest
  \/ CNTest2
  \/ CNArg
  \/ TrapClamp("cn")
  \/ TrapReadHall("cn")
  \/ TrapWrite("cn")
  \/ TrapLeds("cn")
  \/ CNClear

\* the controller and the commutation, driven by the timer and the hall sensors
Next ==
  \/ \E s \in TickSpeeds : Tick(s)
  \/ StepNext
  \/ CNEnter
  \/ CNNext
  \/ HallChange

Spec == Init /\ [][Next]_vars

\* the sampler and the controller, driven by the timer and the encoder
NextEnc ==
  \/ \E s \in TickSpeeds : Tick(s)
  \/ StepNext
  \/ EncoderPulse

SpecEnc == Init /\ [][NextEnc]_vars

\* the controller and the commutation with the motor at rest on target: every
\* call has speed = 0 and the encoder gives no pulse
NextZero ==
  \/ Tick(0)
  \/ StepNext
  \/ CNEnter
  \/ CNNext
  \/ HallChange

SpecZero == Init /\ [][NextZero]_vars

\* the controller and the commutation with the rotor turning from sector to
\* sector, either way
NextRotor ==
  \/ \E s \in TickSpeeds : Tick(s)
  \/ StepNext
  \/ CNEnter
  \/ CNNext
  \/ RotorStep

SpecRotor == Init /\ [][NextRotor]_vars

\* the target speed of the specification with a timer that never stops: it
\* gives a small u below 0 and estimates that settle within three periods
LiveSpeeds == {20}

\* the rotor stands in the sector of the first condition at reset
InitLive == InitFrom({<<1, 1, 0>>})

\* the place of a valid code in the order of TrapUpdate's chains
Sector(h) == CHOOSE k \in 1..6 : Pattern(k) = h

\* the sector in which the turning rotor comes to rest, if not before
RestCode == <<1, 0, 1>>

\* the rotor turns on in one sense, through the sectors against the order of
\* the chains (110, 100, 101): each new code is one whose condition comes
\* earlier in the chain, but for the step from 110 to 100
RotorTurn ==
  /\ hall # RestCode
  /\ RotorStep
  /\ Sector(hall') = (IF Sector(hall) = 1 THEN 6 ELSE Sector(hall) - 1)

\* the controller and the commutation with a timer that never stops and the
\* rotor turning
NextLive ==
  \/ \E s \in LiveSpeeds : TickAgain(s)
  \/ StepNext
  \/ CNEnter
  \/ CNNext
  \/ RotorTurn

\* the timer event recurs; the processor goes on with the handler that runs,
\* and takes a CN interrupt that is pending
SpecLive ==
  /\ InitLive
  /\ [][NextLive]_vars
  /\ WF_vars(\E s \in LiveSpeeds : TickAgain(s))
  /\ WF_vars(StepNext)
  /\ WF_vars(CNEnter)
  /\ WF_vars(CNNext)

(***************************************************************************)
(* Properties.                                                             *)
(***************************************************************************)
Phases == {"A", "B", "C"}

High(p) == CASE p = "A" -> "GH_A" [] p = "B" -> "GH_B" [] p = "C" -> "GH_C"

Low(p) == CASE p = "A" -> "GL_A" [] p = "B" -> "GL_B" [] p = "C" -> "GL_C"

\* one high side and one low side at m, on two phases, and the other four legs at 0
OneHighOneLow(dc, m) ==
  \E p \in Phases : \E q \in Phases \ {p} :
    /\ dc[High(p)] = m
    /\ dc[Low(q)] = m
    /\ \A leg \in LegSet \ {High(p), Low(q)} : dc[leg] = 0

\* a step of SpecSeq that is a whole run of one of the two handlers
HandlerRun == CNInterruptRun \/ \E s \in SpeedSet : SpeedControlStepRun(s)

\* |u| of the stored u, in units of 1 / FS
Magnitude(w) == IF UVal(w) < 0 THEN -UVal(w) ELSE UVal(w)

\* the magnitude m of a dispatch on the stored u: the 16-bit argument, cut to PTPER
Commanded(w) ==
  LET t == ((Magnitude(w) * PTPER) \div FS) % 65536
  IN  IF t > PTPER THEN PTPER ELSE t

\* C1: an uninterrupted dispatch with the sensors at one of the six valid codes
\* and a magnitude m, 0 < m <= PTPER, leaves exactly one high side at m, one
\* low side at m on another phase, and the four other outputs at 0.  (A run of
\* SpeedControlStep dispatches on the u it has just stored, a run of
\* _CNInterrupt on the u it finds, which it does not change.)
C1_OneHighOneLow ==
  [][ (HandlerRun /\ hall \in ValidCodes /\ Commanded(u') \in 1..PTPER)
      => OneHighOneLow(DC', Commanded(u')) ]_vars

\* C1 witness: the handler has run (its flag is down) in the reverse direction
\* with the sensors at 100, the last condition of the chain, and left phase C
\* high and phase A low at the commanded magnitude
C1_Witness ==
  /\ hall = <<1, 0, 0>>
  /\ CNIF = 0
  /\ edges > 0
  /\ UVal(u) < 0
  /\ Commanded(u) > 0
  /\ DC = Duty(0, Commanded(u), 0, 0, Commanded(u), 0)

\* C2: an uninterrupted dispatch that finds the sensors at 000 or 111 leaves
\* the six outputs as they were, whatever the direction and the magnitude.
C2_InvalidCodeHolds ==
  [][ (HandlerRun /\ hall \notin ValidCodes) => DC' = DC ]_vars

\* C2 witness: the handler has returned (its flag is down) with the sensors at
\* 111, and the outputs still hold an entry applied before
C2_Witness ==
  /\ hall = <<1, 1, 1>>
  /\ CNIF = 0
  /\ edges > 0
  /\ DC # ZeroDuty

\* C3: in every reachable state of any interleaving of the periodic step and
\* the hall handler, each of the six outputs is within 0 .. PTPER.
C3_DutyInRange == \A leg \in LegSet : DC[leg] \in 0..PTPER

\* C3 witness: a step alone (no hall edge) has stored a u above 1 and returned
\* from TrapUpdate with its argument cut down to PTPER on an output
C3_Witness ==
  /\ ticks = 1
  /\ edges = 0
  /\ pc["step"] = "telemetry"
  /\ Magnitude(u) > FS
  /\ \E leg \in LegSet : DC[leg] = PTPER

\* C4: whenever |u| > 1, the magnitude a dispatch applies is PTPER exactly,
\* also when |u| * PTPER does not fit the 16-bit torque argument: after an
\* uninterrupted dispatch at a valid code, the two driven outputs are at PTPER.
C4_ClampAboveOne ==
  [][ (HandlerRun /\ hall \in ValidCodes /\ Magnitude(u') > FS)
      => /\ \E leg \in LegSet : DC'[leg] = PTPER
         /\ \A leg \in LegSet : DC'[leg] \in {0, PTPER} ]_vars

\* the positions of a handler between the choice of its direction and the return
\* of TrapUpdate
Dispatching == {"clamp", "cond", "write", "leds"}

\* the direction the claim gives a control value
SignToDirection(v, d) ==
  /\ v = 0 => d = CW
  /\ v > 0 => d = CW
  /\ v < 0 => d = CCW

\* C5: in both dispatch paths the direction handed to TrapUpdate is CW when
\* the u tested is 0, CW when it is positive and CCW when it is negative.
C5_SignToDirection ==
  /\ pc["step"] \in Dispatching => SignToDirection(UVal(u), direction["step"])
  /\ pc["cn"] \in Dispatching \cup {"arg"} => SignToDirection(uTest, direction["cn"])

\* C5 witness: the hall handler is in TrapUpdate in the reverse direction on a
\* negative u that a finished step stored
C5_Witness ==
  /\ pc["cn"] = "cond"
  /\ uTest < 0
  /\ uTest \in uStored
  /\ direction["cn"] = CCW

\* row i of the matrix-vector form: sum over j of x[j] * K_reg[i][j], plus L[i] * error
MatrixRow(x, i, error) ==
  CoefMul(x[1], K_reg[i][1]) + CoefMul(x[2], K_reg[i][2])
    + CoefMul(x[3], K_reg[i][3]) + GainMul(L[i], error)

\* C6: each periodic step sets every component i of x_hat to the matrix-vector
\* form, sum over j of old x_hat[j] * K_reg[i][j], plus L[i] * error, where
\* error = measured speed - target speed.
C6_MatrixVectorForm ==
  [][ \A s \in SpeedSet :
        SpeedControlStepRun(s)
        => \A i \in 1..3 :
             x_hat'[i] = MatrixRow(x_hat, i, Counts2RadSec(ToInt16(counter)) - s) ]_vars

\* C7: from the initial state, while every periodic step has target speed 0
\* and samples a displacement of 0, x_hat stays all-zero, u stays 0, every
\* dispatch of either handler has direction CW and magnitude 0, and the six
\* outputs are 0.
C7_ZeroStaysZero ==
  /\ x_hat = <<0, 0, 0>>
  /\ u = UWords(0)
  /\ DC = ZeroDuty
  /\ \A c \in Ctx : pc[c] \in Dispatching => direction[c] = CW /\ torque[c] = 0

\* C7 witness: a step has sampled, estimated, stored u and dispatched at a valid
\* code (the indicators show the branch it took), and the hall handler is in
\* the middle of a dispatch of its own
C7_Witness ==
  /\ ticks = 1
  /\ pc["step"] = "idle"
  /\ LED \in ValidCodes
  /\ pc["cn"] = "write"
  /\ ix["cn"] = 4

\* C8: the read-then-reset of the counter neither loses nor double-counts a
\* pulse: outside the window between the read and the reset, the displacements
\* sampled so far plus the count standing in the register equal the net count
\* the encoder produced.
C8_NoPulseLost ==
  pc["step"] # "writeQEI" => sampled + ToInt16(counter) = pulses

\* C9: every value of u the hall handler loads is 0 or a value the regulator
\* stored, never a mixture of the words of two values (the value of a write
\* that has begun counts as stored).
C9_NoTornRead == uTest \in uStored /\ uArg \in uStored

\* C10: every hall edge is followed by a dispatch of the hall handler that reads
\* the sensors after it: once the handler has returned and its flag is down, no
\* edge is left that no dispatch of the handler started reading after.
C10_EveryEdgeServed == (CNIF = 0 /\ pc["cn"] = "idle") => ~pendingEdge

\* the phases with a leg that is driven
ActivePhases(dc) == {p \in Phases : dc[High(p)] # 0 \/ dc[Low(p)] # 0}

\* the phases whose high side is driven
HighPhases(dc) == {p \in Phases : dc[High(p)] # 0}

\* a call TrapUpdate(t, CCW), t # 0, at a valid code, right after a call
\* TrapUpdate(t, CW) at the same code
ReverseAfterForward ==
  \E t \in TorqueSet \ {0} :
    /\ hall \in ValidCodes
    /\ DC = TrapUpdate(t, CW, hall, DC, LED).dc
    /\ TrapUpdateRun(t, CCW)

\* C11 as stated: for every valid code the pair of active phases of the forward
\* entry and the pair of active phases of the reverse entry differ (no phase
\* pair is the same in both directions for the same code).
C11_PhasePairsDiffer ==
  [][ ReverseAfterForward => ActivePhases(DC') # ActivePhases(DC) ]_vars

\* C11 amended: for every valid code the forward and the reverse entry drive
\* the same two phases and leave the same phase floating; the two directions
\* differ in which of the two phases has its high side driven.
C11_SamePairOtherPolarity ==
  [][ ReverseAfterForward
      => /\ ActivePhases(DC') = ActivePhases(DC)
         /\ Cardinality(ActivePhases(DC')) = 2
         /\ HighPhases(DC') # HighPhases(DC) ]_vars

\* C11 witness: with the sensors at 011 from reset on, the outputs hold phase
\* A high and phase C low at PTPER, the reverse entry of that code (the forward
\* one is phase C high and phase A low)
C11_Witness ==
  /\ hall = <<0, 1, 1>>
  /\ edges = 0
  /\ DC = Duty(PTPER, 0, 0, 0, 0, PTPER)

\* C12: forward direction at a fixed magnitude m: when the code has gone from
\* 110 to 010 and the hall handler dispatches, the outputs go from exactly
\* phase B high = m, phase C low = m to exactly phase A low = m, phase B high
\* = m, the other four at 0.
C12_Sector110To010 ==
  [][ ( /\ CNInterruptRun
        /\ hall = <<0, 1, 0>>
        /\ UVal(u) >= 0
        /\ DC = Duty(0, 0, Commanded(u), 0, 0, Commanded(u)) )
      => DC' = Duty(0, Commanded(u), Commanded(u), 0, 0, 0) ]_vars

\* C12 witness: one step in the forward direction, one edge and one run of the
\* hall handler have left phase A low and phase B high at the magnitude of u
C12_Witness ==
  /\ hall = <<0, 1, 0>>
  /\ ticks = 1
  /\ edges = 1
  /\ CNIF = 0
  /\ UVal(u) > 0
  /\ Commanded(u) > 0
  /\ DC = Duty(0, Commanded(u), Commanded(u), 0, 0, 0)

\* the entry with the high side and the low side of every phase exchanged
SwapSides(dc) == Duty(dc.GL_A, dc.GH_A, dc.GL_B, dc.GH_B, dc.GL_C, dc.GH_C)

\* C13: for every valid code and every magnitude, the reverse entry is the
\* forward entry with the high-side and the low-side value of each phase
\* exchanged.
C13_Antisymmetric ==
  [][ \A t \in TorqueSet :
        (TrapUpdateRun(t, CCW) /\ hall \in ValidCodes)
        => DC' = SwapSides(TrapUpdate(t, CW, hall, DC, LED).dc) ]_vars

\* C13 witness: with the sensors at 110 from reset on, a reverse call with an
\* argument above PTPER has left phase C high and phase B low at PTPER
C13_Witness ==
  /\ hall = <<1, 1, 0>>
  /\ edges = 0
  /\ LED = <<1, 1, 0>>
  /\ DC = Duty(0, 0, 0, PTPER, PTPER, 0)

\* C14: a run of the hall handler, its call of TrapUpdate included, leaves u,
\* x_hat, the encoder counter and the telemetry buffer as they were, and u
\* changes only in a step that is a run of SpeedControlStep.
C14_HandlerFrame ==
  [][ /\ CNInterruptRun => UNCHANGED <<u, x_hat, counter, out>>
      /\ u' # u => \E s \in SpeedSet : SpeedControlStepRun(s) ]_vars

\* C14 witness: after a step that stored a negative u and printed its line, an
\* encoder pulse and a hall edge, the handler has run (its flag is down) and
\* dispatched at the code the sensors show; u, the count and the line stand
C14_Witness ==
  /\ ticks = 1
  /\ edges = 1
  /\ CNIF = 0
  /\ LED = hall
  /\ UVal(u) < 0
  /\ UVal(u) = Regulator(x_hat)
  /\ counter # 0
  /\ out = TelemetryLine(0, x_hat)

\* C16: a periodic step sets every component of x_hat to its row evaluated on
\* the values x_hat had before the step, none on a component the step has
\* already replaced, and stores the u of the x_hat so updated.
C16_SynchronousUpdate ==
  [][ \A s \in SpeedSet :
        SpeedControlStepRun(s)
        => /\ \A i \in 1..3 :
                x_hat'[i] = EstimatorRows(x_hat, Counts2RadSec(ToInt16(counter)) - s)[i]
           /\ UVal(u') = Regulator(x_hat') ]_vars

\* C16 witness: two steps with target speed 500 and no pulse: the second has
\* replaced x_hat = (-0.14, 0.04, 0.60) by the rows evaluated on those values
C16_Witness ==
  /\ ticks = 2
  /\ pulses = 0
  /\ x_hat = EstimatorRows(<<-14, 4, 60>>, -500)
  /\ x_hat # <<-14, 4, 60>>
  /\ x_dummy = x_hat
  /\ UVal(u) = Regulator(x_hat)

\* the codes the sensors have shown while context c has been evaluating its chain
Shown(c) == shown[c] \cup {hall}

\* C15: a dispatch decides on one sample of the three sensors: when it takes a
\* branch, the code of that branch is a code the sensors showed at an instant
\* of the dispatch, and when the sensors showed valid codes only, it does not
\* leave the chain without taking a branch, also when the sensors change while
\* it evaluates the conditions.
C15_SingleSample ==
  [][ \A c \in Ctx :
        /\ (pc[c] = "cond" /\ pc'[c] = "write") => Pattern(br[c]) \in Shown(c)
        /\ (pc[c] = "cond" /\ pc'[c] = AfterTrap(c)) => ~(Shown(c) \subseteq ValidCodes) ]_vars

\* C17: every run of the hall handler makes one dispatch, and takes its
\* direction and its magnitude from the same value of u: the u it loads for the
\* argument is the u whose sign it tested, and it does not go to its last
\* statement without a call of TrapUpdate, also when a periodic step stores a
\* new u between the handler's loads of u.
C17_OneValueOfU ==
  [][ /\ pc'["cn"] \in Dispatching => uArg' = uTest'
      /\ ~(pc["cn"] = "test2" /\ pc'["cn"] = "clear") ]_vars

\* C18: no shoot-through: in every reachable state, the states between two
\* output writes of a dispatch and after a preemption included, no phase has
\* its high-side and its low-side output both non-zero.
C18_NoShootThrough ==
  \A p \in Phases : ~(DC[High(p)] # 0 /\ DC[Low(p)] # 0)

\* the largest of the six outputs
Level(dc) == CHOOSE m \in {dc[leg] : leg \in LegSet} : \A leg \in LegSet : dc[leg] <= m

\* C19: whenever neither the periodic step nor the hall handler is in
\* progress, the six outputs are all zero or are one entry of the table, for one
\* code, one direction and one magnitude.
C19_OneEntry ==
  active = <<>>
  => \/ DC = ZeroDuty
     \/ \E d \in {CW, CCW} : \E k \in 1..6 : DC = Entry(d, k, Level(DC))

\* the entry of the table for the code h, with the direction and the magnitude
\* of a dispatch on the stored u
EntryOf(h, w) ==
  Entry(DirOf(UVal(w)), CHOOSE k \in 1..6 : Pattern(k) = h, Commanded(w))

\* C20: if from some point on the sensors stay at one valid code and the
\* periodic steps keep occurring, then the outputs come to equal the entry for
\* that code with the direction and the magnitude of the u of the latest step,
\* again after every step, whatever edges and steps went before.
C20_EventuallyConsistent ==
  \A h \in ValidCodes :
    <>[](hall = h) => []<>(pc["step"] = "idle" /\ DC = EntryOf(h, u))

\* C20 witness: the rotor has come to rest two sectors on, and with the non-zero
\* u of a later step stored, nothing is in progress and the outputs are the
\* entry of the code the sensors show
C20_Witness ==
  /\ hall = RestCode
  /\ ticks = MaxTicks
  /\ CNIF = 0
  /\ active = <<>>
  /\ hall \in ValidCodes
  /\ UVal(u) < 0
  /\ DC # ZeroDuty
  /\ DC = EntryOf(hall, u)

=============================================================================
